---- MODULE Spec2Model ----
(***************************************************************************)
(* Model of game-state.go: the tic-tac-toe game state (board, per-player   *)
(* line counters, turn state), the move operation and the registry of      *)
(* current games keyed by user pair.                                       *)
(*                                                                         *)
(* Strings are sequences of byte codes, so that the lexicographic          *)
(* comparison and the concatenation of getUserPairKey are computed.        *)
(* GameState objects live on a heap (games) addressed by handles, because  *)
(* the registry and the callers hold pointers to them.                     *)
(* The source names one field in two ways (currPiece/currentPiece,         *)
(* currPlayer/currentPlayer, totalPieces/totalCount); each pair is one     *)
(* field here.                                                             *)
(***************************************************************************)
EXTENDS Integers, Sequences, FiniteSets, TLC

VARIABLES games, currentGames, ret, hist, moves

vars == <<games, currentGames, ret, hist, moves>>

----------------------------------------------------------------------------
(* Program constants *)

boardSize == 3

O == 0
X == 1
B == 2

OWin == 0
XWin == 1
Tie == 2
Pending == 3

(* Bounds of the model *)

\* number of GameState objects allocated in the registry specification
MaxGames == 2
\* number of successful moves made in the registry specification
MaxMoves == 1

----------------------------------------------------------------------------
(* Strings *)

\* the byte "$" of the key's separator
DOLLAR == 36

\* the strings "", "a" and "b"
EmptyStr == << >>
StrA == <<97>>
StrB == <<98>>

\* user names the callers pass
Users == {EmptyStr, StrA, StrB}

\* user names the key is computed for: "", "a", "b", "ab", "a$", "$$"
KeyNames == Users \cup {<<97, 98>>, <<97, DOLLAR>>, <<DOLLAR, DOLLAR>>}

\* the pairs of users a single game is started with
StartPairs == {<<StrA, StrB>>, <<EmptyStr, StrB>>}

\* user names of the registry specification
RegUsers == {StrA, StrB}

\* coordinates the callers pass: one below and one above the board included
Coords == -1 .. boardSize

\* coordinates the callers pass in the registry specification
RegCoords == 0 .. 1

Idx == 0 .. (boardSize - 1)

\* Go's <= on strings: bytewise lexicographic order
RECURSIVE StrLE(_, _)
StrLE(s, t) ==
  IF s = << >> THEN TRUE
  ELSE IF t = << >> THEN FALSE
  ELSE IF Head(s) < Head(t) THEN TRUE
  ELSE IF Head(s) > Head(t) THEN FALSE
  ELSE StrLE(Tail(s), Tail(t))

getUserPairKey_unordered(userA, userB) ==
  userA \o <<DOLLAR, DOLLAR>> \o userB

getUserPairKey(userA, userB) ==
  IF StrLE(userA, userB)
    THEN userA \o <<DOLLAR, DOLLAR>> \o userB
    ELSE userB \o <<DOLLAR, DOLLAR>> \o userA

----------------------------------------------------------------------------
(* Game state *)

\* error values of makeMove: nil and the three fmt.Errorf messages
NoErr == "nil"
ErrTurn == "not player's turn"
ErrRange == "out of range"
ErrNotEmpty == "not empty"

initBoard == [x \in Idx |-> [y \in Idx |-> B]]

\* the zero value of PlayerCounts
ZeroCounts ==
  [rows |-> [i \in Idx |-> 0], cols |-> [i \in Idx |-> 0], diags |-> [i \in 0..1 |-> 0]]

\* &GameState{board: &board, currPiece: O, currPlayer: userA}: the other
\* fields keep Go's zero values
NewGame(userA, userB) ==
  [board |-> initBoard,
   currentPiece |-> O,
   currentPlayer |-> userA,
   nextPlayer |-> EmptyStr,
   oCounts |-> ZeroCounts,
   xCounts |-> ZeroCounts,
   totalPieces |-> 0]

getDiag(x, y) ==
  LET last == boardSize - 1 IN
  IF (x = 0 /\ y = 0) \/ (x = last /\ y = last) THEN 0
  ELSE IF (x = last /\ y = 0) \/ (x = 0 /\ y = last) THEN 1
  ELSE -1

checkGameOver_noTie(game, x, y) ==
  IF game.currentPiece = O
    THEN IF game.oCounts.rows[x] = boardSize \/ game.oCounts.cols[y] = boardSize
           THEN OWin ELSE Pending
    ELSE IF game.xCounts.rows[x] = boardSize \/ game.xCounts.cols[x] = boardSize
           THEN XWin ELSE Pending

checkGameOver_tieFirst(game, x, y) ==
  LET diag == getDiag(x, y) IN
  IF game.totalPieces = boardSize * boardSize THEN Tie
  ELSE IF game.currentPiece = O
       /\ ( (diag >= 0 /\ game.oCounts.diags[diag] = boardSize)
            \/ game.oCounts.rows[x] = boardSize
            \/ game.oCounts.cols[y] = boardSize )
    THEN OWin
  ELSE IF game.currentPiece # O
       /\ ( (diag >= 0 /\ game.xCounts.diags[diag] = boardSize)
            \/ game.xCounts.rows[x] = boardSize
            \/ game.xCounts.cols[x] = boardSize )
    THEN XWin
  ELSE Pending

checkGameOver(game, x, y) ==
  LET diag == getDiag(x, y) IN
  IF game.currentPiece = O
       /\ ( (diag >= 0 /\ game.oCounts.diags[diag] = boardSize)
            \/ game.oCounts.rows[x] = boardSize
            \/ game.oCounts.cols[y] = boardSize )
    THEN OWin
  ELSE IF game.currentPiece # O
       /\ ( (diag >= 0 /\ game.xCounts.diags[diag] = boardSize)
            \/ game.xCounts.rows[x] = boardSize
            \/ game.xCounts.cols[x] = boardSize )
    THEN XWin
  ELSE IF game.totalPieces = boardSize * boardSize THEN Tie
  ELSE Pending

\* the range check of makeMove
outOfRange_offByOne(x, y) ==
  x < 0 \/ x > boardSize \/ y < 0 \/ y > boardSize

outOfRange(x, y) ==
  x < 0 \/ x >= boardSize \/ y < 0 \/ y >= boardSize

\* the three validations of makeMove, in the order of the code
validate_rangeFirst(game, user, x, y) ==
  IF x < 0 \/ x >= boardSize \/ y < 0 \/ y >= boardSize THEN ErrRange
  ELSE IF user # game.currentPlayer THEN ErrTurn
  ELSE IF game.board[x][y] # B THEN ErrNotEmpty
  ELSE NoErr

validate_noOccupied(game, user, x, y) ==
  IF user # game.currentPlayer THEN ErrTurn
  ELSE IF x < 0 \/ x >= boardSize \/ y < 0 \/ y >= boardSize THEN ErrRange
  ELSE NoErr

validate(game, user, x, y) ==
  IF user # game.currentPlayer THEN ErrTurn
  ELSE IF outOfRange(x, y) THEN ErrRange
  ELSE IF game.board[x][y] # B THEN ErrNotEmpty
  ELSE NoErr

bump_swapped(counts, x, y) ==
  LET diag == getDiag(x, y)
      c1 == [counts EXCEPT !.rows[y] = @ + 1, !.cols[x] = @ + 1]
  IN IF diag >= 0 THEN [c1 EXCEPT !.diags[diag] = @ + 1] ELSE c1

\* counters of one player after a piece at (x, y)
bump(counts, x, y) ==
  LET diag == getDiag(x, y)
      c1 == [counts EXCEPT !.rows[x] = @ + 1, !.cols[y] = @ + 1]
  IN IF diag >= 0 THEN [c1 EXCEPT !.diags[diag] = @ + 1] ELSE c1

\* the piece is put on the board and counted
place_noCount(game, x, y) ==
  LET g1 == [game EXCEPT !.board[x][y] = game.currentPiece]
  IN IF game.currentPiece = O
       THEN [g1 EXCEPT !.oCounts = bump(@, x, y)]
       ELSE [g1 EXCEPT !.xCounts = bump(@, x, y)]

place(game, x, y) ==
  LET g1 == [game EXCEPT !.board[x][y] = game.currentPiece,
                         !.totalPieces = @ + 1]
  IN IF game.currentPiece = O
       THEN [g1 EXCEPT !.oCounts = bump(@, x, y)]
       ELSE [g1 EXCEPT !.xCounts = bump(@, x, y)]

\* the piece is flipped and the players are swapped
rotate_keepPiece(game, user) ==
  [game EXCEPT !.currentPlayer = game.nextPlayer,
               !.nextPlayer = user]

rotate(game, user) ==
  [game EXCEPT !.currentPiece = IF game.currentPiece = O THEN X ELSE O,
               !.currentPlayer = game.nextPlayer,
               !.nextPlayer = user]

\* The array elements one call of makeMove reads or writes, in the code's
\* control flow: the board cell once the turn and range checks have passed,
\* then the mover's counters and the counters checkGameOver tests.  An
\* index outside its array ends the call (Go panics), so nothing follows it.
accesses(game, user, x, y) ==
  LET cell == [arr |-> "board", i |-> x, j |-> y]
      diag == getDiag(x, y)
      dg == IF diag >= 0 THEN {[arr |-> "diags", i |-> diag, j |-> 0]} ELSE {}
      upd == {[arr |-> "rows", i |-> x, j |-> 0], [arr |-> "cols", i |-> y, j |-> 0]} \cup dg
      chk == IF game.currentPiece = O
               THEN {[arr |-> "rows", i |-> x, j |-> 0], [arr |-> "cols", i |-> y, j |-> 0]} \cup dg
               ELSE {[arr |-> "rows", i |-> x, j |-> 0], [arr |-> "cols", i |-> x, j |-> 0]} \cup dg
  IN IF user # game.currentPlayer \/ outOfRange(x, y) THEN {}
     ELSE IF ~(x \in Idx /\ y \in Idx) THEN {cell}
     ELSE IF game.board[x][y] # B THEN {cell}
     ELSE {cell} \cup upd \cup chk

\* makeMove as a function of the game and its arguments: the game after the
\* call, the error and the result
makeMove_countBeforeCheck(game, user, x, y) ==
  LET e == validate(game, user, x, y) IN
  IF e = ErrNotEmpty
    THEN [game |-> [game EXCEPT !.totalPieces = @ + 1], err |-> e, result |-> Pending]
  ELSE IF e # NoErr THEN [game |-> game, err |-> e, result |-> Pending]
  ELSE LET g1 == place(game, x, y)
           r == checkGameOver(g1, x, y)
       IN IF r # Pending
            THEN [game |-> g1, err |-> NoErr, result |-> r]
            ELSE [game |-> rotate(g1, user), err |-> NoErr, result |-> Pending]

makeMove_rotateAlways(game, user, x, y) ==
  LET e == validate(game, user, x, y) IN
  IF e # NoErr THEN [game |-> game, err |-> e, result |-> Pending]
  ELSE LET g1 == place(game, x, y)
           r == checkGameOver(g1, x, y)
       IN [game |-> rotate(g1, user), err |-> NoErr, result |-> r]

makeMove(game, user, x, y) ==
  LET e == validate(game, user, x, y) IN
  IF e # NoErr THEN [game |-> game, err |-> e, result |-> Pending]
  ELSE LET g1 == place(game, x, y)
           r == checkGameOver(g1, x, y)
       IN IF r # Pending
            THEN [game |-> g1, err |-> NoErr, result |-> r]
            ELSE [game |-> rotate(g1, user), err |-> NoErr, result |-> Pending]

----------------------------------------------------------------------------
(* History kept beside each game: the arguments of its startGame, its      *)
(* successful moves, how many of them returned a terminal result, the last *)
(* two movers, the last piece placed and the last result returned.         *)

NoUser == <<0>>

NewHist(userA, userB) ==
  [a |-> userA, b |-> userB, n |-> 0, terminals |-> 0,
   mover1 |-> NoUser, mover2 |-> NoUser, piece1 |-> B,
   lastResult |-> Pending, alternated |-> TRUE]

\* the user whose turn it is in an alternation that userA starts
Expected(h) == IF h.n % 2 = 0 THEN h.a ELSE h.b

MoveHist(h, game, user, r) ==
  [h EXCEPT !.n = @ + 1,
            !.terminals = IF r # Pending THEN @ + 1 ELSE @,
            !.mover1 = user,
            !.mover2 = h.mover1,
            !.piece1 = game.currentPiece,
            !.lastResult = r,
            !.alternated = @ /\ user = Expected(h)]

Handles == DOMAIN games

----------------------------------------------------------------------------
(* Operations *)

\* the package after loading: no game
Init ==
  /\ games = << >>
  /\ currentGames = << >>
  /\ hist = << >>
  /\ ret = [op |-> "init", err |-> NoErr, result |-> Pending, game |-> 0]
  /\ moves = 0

StartGame(userA, userB) ==
  /\ Len(games) < MaxGames
  /\ LET h == Len(games) + 1
         key == getUserPairKey(userA, userB)
     IN /\ games' = Append(games, NewGame(userA, userB))
        /\ hist' = Append(hist, NewHist(userA, userB))
        /\ currentGames' = [k \in DOMAIN currentGames \cup {key} |->
                              IF k = key THEN h ELSE currentGames[k]]
        /\ ret' = [op |-> "startGame", err |-> NoErr, result |-> Pending, game |-> h]
  /\ UNCHANGED moves

ClearGame(userA, userB) ==
  /\ LET key == getUserPairKey(userA, userB)
     IN currentGames' = [k \in DOMAIN currentGames \ {key} |-> currentGames[k]]
  /\ ret' = [op |-> "clearGame", err |-> NoErr, result |-> Pending, game |-> 0]
  /\ UNCHANGED <<games, hist, moves>>

MakeMove(h, user, x, y) ==
  /\ h \in Handles
  /\ LET m == makeMove(games[h], user, x, y)
     IN /\ games' = [games EXCEPT ![h] = m.game]
        /\ ret' = [op |-> "makeMove", err |-> m.err, result |-> m.result, game |-> h]
        /\ hist' = IF m.err = NoErr
                     THEN [hist EXCEPT ![h] = MoveHist(@, games[h], user, m.result)]
                     ELSE hist
  /\ UNCHANGED <<currentGames, moves>>

\* a move of the registry specification: successful moves are counted
MakeMoveBounded(h, user, x, y) ==
  /\ h \in Handles
  /\ LET m == makeMove(games[h], user, x, y)
     IN /\ m.err = NoErr => moves < MaxMoves
        /\ games' = [games EXCEPT ![h] = m.game]
        /\ ret' = [op |-> "makeMove", err |-> m.err, result |-> m.result, game |-> h]
        /\ hist' = IF m.err = NoErr
                     THEN [hist EXCEPT ![h] = MoveHist(@, games[h], user, m.result)]
                     ELSE hist
        /\ moves' = IF m.err = NoErr THEN moves + 1 ELSE moves
  /\ UNCHANGED currentGames

\* One game: the state after startGame(userA, userB) on the empty registry,
\* then any calls of makeMove on the returned game.
InitGame ==
  \E p \in StartPairs : LET userA == p[1] userB == p[2] IN
    /\ games = <<NewGame(userA, userB)>>
    /\ hist = <<NewHist(userA, userB)>>
    /\ currentGames = [k \in {getUserPairKey(userA, userB)} |-> 1]
    /\ ret = [op |-> "startGame", err |-> NoErr, result |-> Pending, game |-> 1]
    /\ moves = 0

NextGame ==
  \E user \in Users, x \in Coords, y \in Coords : MakeMove(1, user, x, y)

Spec == InitGame /\ [][NextGame]_vars

\* The registry: games are started, cleared and played.
Next ==
  \/ \E userA \in RegUsers, userB \in RegUsers : StartGame(userA, userB)
  \/ \E userA \in RegUsers, userB \in RegUsers : ClearGame(userA, userB)
  \/ \E h \in Handles, user \in RegUsers, x \in RegCoords, y \in RegCoords :
       MakeMoveBounded(h, user, x, y)

SpecReg == Init /\ [][Next]_vars

\* user names that hold the separator: "", "$$a", "$$" and "a"
PairUsers == {EmptyStr, <<DOLLAR, DOLLAR, 97>>, <<DOLLAR, DOLLAR>>, StrA}

\* The registry with user names that hold the separator of the key.
NextPairs ==
  \/ \E userA \in PairUsers, userB \in PairUsers : StartGame(userA, userB)
  \/ \E userA \in PairUsers, userB \in PairUsers : ClearGame(userA, userB)
  \/ \E h \in Handles, user \in PairUsers, x \in RegCoords, y \in RegCoords :
       MakeMoveBounded(h, user, x, y)

SpecPairs == Init /\ [][NextPairs]_vars

----------------------------------------------------------------------------
(* What the properties speak of *)

Cells == Idx \X Idx

\* the rows (fixed x), the columns (fixed y) and the two diagonals
Lines ==
  {{<<x, y>> : y \in Idx} : x \in Idx}
    \cup {{<<x, y>> : x \in Idx} : y \in Idx}
    \cup {{c \in Cells : c[1] = c[2]}, {c \in Cells : c[1] + c[2] = boardSize - 1}}

\* the full-board rescan: the piece fills some line
HoldsLine(board, piece) ==
  \E l \in Lines : \A c \in l : board[c[1]][c[2]] = piece

CountOf(board, piece) == Cardinality({c \in Cells : board[c[1]][c[2]] = piece})

NonBlank(board) == Cardinality({c \in Cells : board[c[1]][c[2]] # B})

WinOf(piece) == IF piece = O THEN OWin ELSE XWin

\* C1: after any sequence of successful moves, the result of the last move
\* is the mover's win exactly when the mover's piece fills a row, a column,
\* the main diagonal or the anti-diagonal of the board.
ClaimC1 ==
  \A h \in Handles :
    hist[h].n > 0 =>
      ( (hist[h].lastResult = WinOf(hist[h].piece1))
          <=> HoldsLine(games[h].board, hist[h].piece1) )

\* C2: a call of makeMove that returns an error leaves the board, both
\* players' counters, totalPieces, the current piece and both movers as
\* they were.
C2_ErrorLeavesGame ==
  [][\A h \in Handles :
       (ret'.op = "makeMove" /\ ret'.game = h /\ ret'.err # NoErr) =>
         /\ games'[h].board = games[h].board
         /\ games'[h].oCounts = games[h].oCounts
         /\ games'[h].xCounts = games[h].xCounts
         /\ games'[h].totalPieces = games[h].totalPieces
         /\ games'[h].currentPiece = games[h].currentPiece
         /\ games'[h].currentPlayer = games[h].currentPlayer
         /\ games'[h].nextPlayer = games[h].nextPlayer]_vars

\* a move to an occupied cell was refused on a board that holds pieces
W_C2 ==
  /\ ret.op = "makeMove"
  /\ ret.err = ErrNotEmpty
  /\ games[ret.game].totalPieces > 0

\* the error the three checks give, from the state before the call
ErrorCase(game, user, x, y) ==
  CASE user # game.currentPlayer -> ErrTurn
    [] user = game.currentPlayer /\ ~(x \in Idx /\ y \in Idx) -> ErrRange
    [] user = game.currentPlayer /\ x \in Idx /\ y \in Idx
         /\ game.board[x][y] # B -> ErrNotEmpty
    [] OTHER -> NoErr

\* C3: makeMove returns an error, with result Pending, exactly when the
\* mover is not the current mover, else when x or y is out of [0, N), else
\* when the cell is not Blank; in every other case it returns no error.
C3_ErrorCases ==
  /\ \A h \in Handles, user \in Users, x \in Coords, y \in Coords :
       LET m == makeMove(games[h], user, x, y)
       IN /\ m.err = ErrorCase(games[h], user, x, y)
          /\ (m.err # NoErr => m.result = Pending)
  /\ (ret.op = "makeMove" /\ ret.err # NoErr) => ret.result = Pending

\* an out-of-range move of the current mover was refused
W_C3 ==
  /\ ret.op = "makeMove"
  /\ ret.err = ErrRange
  /\ ret.result = Pending
  /\ hist[ret.game].n > 0

\* C4: while no move has returned a terminal result, the mover of a
\* successful move is the mover of the move two before, differs from the
\* mover of the move before, and the pieces placed alternate O, X, O, ...
ClaimC4 ==
  [][\A h \in Handles :
       (hist'[h].n = hist[h].n + 1 /\ hist[h].terminals = 0) =>
         /\ (hist[h].n >= 2 => hist'[h].mover1 = hist[h].mover2)
         /\ (hist[h].n >= 1 => hist'[h].mover1 # hist[h].mover1)
         /\ hist'[h].piece1 = (IF hist[h].n % 2 = 0 THEN O ELSE X)]_vars

\* C5: totalPieces is the number of successful moves since startGame, is
\* the number of non-Blank cells, and is at most N*N.
C5_TotalPieces ==
  \A h \in Handles :
    /\ games[h].totalPieces = hist[h].n
    /\ games[h].totalPieces = NonBlank(games[h].board)
    /\ games[h].totalPieces <= boardSize * boardSize

\* the board is full after nine successful moves
W_C5 ==
  /\ hist[1].n = boardSize * boardSize
  /\ NonBlank(games[1].board) = boardSize * boardSize

\* C6: the game startGame(playerA, playerB) returns has a Blank board, zero
\* counters, totalPieces 0, current piece O, current mover playerA and next
\* mover playerB.
ClaimC6 ==
  \A h \in Handles :
    (ret.op = "startGame" /\ ret.game = h) =>
      /\ \A c \in Cells : games[h].board[c[1]][c[2]] = B
      /\ \A i \in Idx : /\ games[h].oCounts.rows[i] = 0
                        /\ games[h].oCounts.cols[i] = 0
                        /\ games[h].xCounts.rows[i] = 0
                        /\ games[h].xCounts.cols[i] = 0
      /\ \A d \in 0..1 : games[h].oCounts.diags[d] = 0 /\ games[h].xCounts.diags[d] = 0
      /\ games[h].totalPieces = 0
      /\ games[h].currentPiece = O
      /\ games[h].currentPlayer = hist[h].a
      /\ games[h].nextPlayer = hist[h].b

\* C7: after startGame(A, B) with A # B, while A and B move in turn (A
\* first) to Blank cells of the board, every move is accepted; it returns
\* the mover's win when it completes a line and Pending before that.
ClaimC7 ==
  [][\A user \in Users, x \in Idx, y \in Idx :
       ( /\ MakeMove(1, user, x, y)
         /\ hist[1].a # hist[1].b
         /\ hist[1].alternated
         /\ hist[1].terminals = 0
         /\ user = Expected(hist[1])
         /\ games[1].board[x][y] = B )
       => /\ ret'.err = NoErr
          /\ HoldsLine(games'[1].board, games[1].currentPiece)
               => ret'.result = WinOf(games[1].currentPiece)
          /\ (~HoldsLine(games'[1].board, games[1].currentPiece)
               /\ NonBlank(games'[1].board) < boardSize * boardSize)
               => ret'.result = Pending]_vars

\* C8: when the successful moves fill all N*N cells and neither player holds
\* a complete row, column or diagonal, the move that filled the last cell
\* returned Tie and every move before it returned Pending.
C8_FullBoardTie ==
  \A h \in Handles :
    ( /\ NonBlank(games[h].board) = boardSize * boardSize
      /\ ~HoldsLine(games[h].board, O)
      /\ ~HoldsLine(games[h].board, X) )
    => /\ hist[h].n = boardSize * boardSize
       /\ hist[h].lastResult = Tie
       /\ hist[h].terminals = 1

\* a drawn board: full, no line, Tie returned by the ninth move
W_C8 ==
  /\ NonBlank(games[1].board) = boardSize * boardSize
  /\ ~HoldsLine(games[1].board, O)
  /\ ~HoldsLine(games[1].board, X)
  /\ hist[1].n = boardSize * boardSize
  /\ hist[1].lastResult = Tie

PieceBalance(board) == CountOf(board, O) - CountOf(board, X) \in {0, 1}

\* C9: in every reachable state, moves accepted after a terminal result
\* included, the numbers of O and X pieces differ by at most 1 and O has as
\* many pieces as X or one more.
ClaimC9 ==
  \A h \in Handles : PieceBalance(games[h].board)

\* no move of the game was accepted after a move returned a terminal result
NoMoveAfterTerminal(h) ==
  \/ h.terminals = 0
  \/ h.terminals = 1 /\ h.lastResult # Pending

\* C9, amended: the same in every state of a game in which no move has been
\* accepted after a move returned a terminal result.
C9_BalanceUntilTerminal ==
  \A h \in Handles : NoMoveAfterTerminal(hist[h]) => PieceBalance(games[h].board)

\* the second player has just won with as many pieces as the first
W_C9 ==
  /\ hist[1].terminals = 1
  /\ hist[1].lastResult = XWin
  /\ CountOf(games[1].board, O) = CountOf(games[1].board, X)

\* the registered games that were started between users a and b
EntriesOf(reg, hs, a, b) ==
  {k \in DOMAIN reg : {hs[reg[k]].a, hs[reg[k]].b} = {a, b}}

\* C10: getUserPairKey(a, b) = getUserPairKey(b, a); startGame(b, a) while
\* the game of startGame(a, b) is registered leaves exactly one entry for
\* the pair, and it is the new, freshly initialised game.
C10_PairKeySymmetric ==
  [][\A a \in RegUsers, b \in RegUsers :
       ( /\ StartGame(b, a)
         /\ \E g \in Handles :
              /\ hist[g].a = a /\ hist[g].b = b
              /\ getUserPairKey(a, b) \in DOMAIN currentGames
              /\ currentGames[getUserPairKey(a, b)] = g )
       => LET k == getUserPairKey(b, a)
              h == ret'.game
          IN /\ getUserPairKey(a, b) = k
             /\ \A u \in KeyNames, v \in KeyNames : getUserPairKey(u, v) = getUserPairKey(v, u)
             /\ EntriesOf(currentGames', hist', a, b) = {k}
             /\ DOMAIN currentGames' = DOMAIN currentGames
             /\ h \notin Handles
             /\ currentGames'[k] = h
             /\ games'[h].board = initBoard
             /\ games'[h].totalPieces = 0
             /\ games'[h].currentPiece = O
             /\ games'[h].currentPlayer = b]_vars

\* startGame(a, b), a move, then startGame(b, a): one entry, the new game
W_C10 ==
  \E g1 \in Handles, g2 \in Handles :
    /\ g1 < g2
    /\ hist[g1].a # hist[g1].b
    /\ hist[g2].a = hist[g1].b /\ hist[g2].b = hist[g1].a
    /\ games[g1].totalPieces > 0
    /\ games[g2].totalPieces = 0
    /\ ret.op = "startGame" /\ ret.game = g2
    /\ DOMAIN currentGames = {getUserPairKey(hist[g1].a, hist[g1].b)}
    /\ currentGames[getUserPairKey(hist[g2].a, hist[g2].b)] = g2

\* the cells of row i (x = i), of column j (y = j) and of the two diagonals
RowCells(i) == {c \in Cells : c[1] = i}
ColCells(j) == {c \in Cells : c[2] = j}
DiagCells(d) ==
  IF d = 0 THEN {c \in Cells : c[1] = c[2]}
           ELSE {c \in Cells : c[1] + c[2] = boardSize - 1}

\* every cell of the line holds the piece
Fills(board, piece, line) == \A c \in line : board[c[1]][c[2]] = piece

CountsOf(game, piece) == IF piece = O THEN game.oCounts ELSE game.xCounts

\* C11: when a player's counter of a row, a column or a diagonal equals N,
\* every cell of that line holds that player's piece.
C11_FullCountFullLine ==
  \A h \in Handles, piece \in {O, X} :
    LET counts == CountsOf(games[h], piece) IN
    /\ \A i \in Idx :
         /\ counts.rows[i] = boardSize => Fills(games[h].board, piece, RowCells(i))
         /\ counts.cols[i] = boardSize => Fills(games[h].board, piece, ColCells(i))
    /\ \A d \in 0..1 :
         counts.diags[d] = boardSize => Fills(games[h].board, piece, DiagCells(d))

\* X's counter of a column and O's counter of another column are N
W_C11 ==
  /\ \E j \in Idx : games[1].xCounts.cols[j] = boardSize
  /\ \E j \in Idx : games[1].oCounts.cols[j] = boardSize

\* C12: within one game a board cell changes only from Blank to O or X, and
\* a non-Blank cell keeps its value through every later makeMove call.
C12_CellsWrittenOnce ==
  [][\A h \in Handles :
       \/ games'[h].board = games[h].board
       \/ \A c \in Cells :
            LET old == games[h].board[c[1]][c[2]]
                new == games'[h].board[c[1]][c[2]]
            IN /\ old # B => new = old
               /\ new # old => new \in {O, X}]_vars

\* a later move was accepted and another was refused on a board with both pieces
W_C12 ==
  /\ hist[1].n >= 3
  /\ CountOf(games[1].board, O) >= 1
  /\ CountOf(games[1].board, X) >= 1
  /\ ret.op = "makeMove"
  /\ ret.err = ErrNotEmpty

\* the index lies in its array: the board, rows and cols have boardSize
\* elements, diags has 2
InBounds(a) ==
  CASE a.arr = "board" -> a.i \in Idx /\ a.j \in Idx
    [] a.arr = "diags" -> a.i \in 0..1
    [] OTHER -> a.i \in Idx

\* C13: for every mover and all x and y, negative and >= N included,
\* makeMove indexes the board and the counter arrays inside their bounds
\* only, and coordinates out of range end in a returned error.
C13_IndicesInBounds ==
  /\ \A h \in Handles, user \in Users, x \in Coords, y \in Coords :
       \A a \in accesses(games[h], user, x, y) : InBounds(a)
  /\ \A h \in Handles, user \in Users, x \in Coords, y \in Coords :
       ~(x \in Idx /\ y \in Idx) => makeMove(games[h], user, x, y).err # NoErr

\* an out-of-range call was refused while it was X's turn
W_C13 ==
  /\ ret.op = "makeMove"
  /\ ret.err = ErrRange
  /\ games[1].currentPiece = X
  /\ hist[1].n >= 3

\* the unordered pair of users a game was started for
PairOf(h) == {hist[h].a, hist[h].b}

\* the registered games of the pairs other than {a, b} stay registered
\* under their keys and keep their state
OthersKept(a, b) ==
  \A k \in DOMAIN currentGames :
    PairOf(currentGames[k]) # {a, b} =>
      /\ k \in DOMAIN currentGames'
      /\ currentGames'[k] = currentGames[k]
      /\ games'[currentGames[k]] = games[currentGames[k]]

\* C14: startGame, clearGame and makeMove on one unordered pair of users
\* never change, replace or remove the registered game of another pair
\* (different pairs have different keys, a move changes one game only).
ClaimC14 ==
  [][/\ \A a \in PairUsers, b \in PairUsers :
          (StartGame(a, b) \/ ClearGame(a, b)) => OthersKept(a, b)
     /\ \A h \in Handles :
          games'[h] # games[h] => OthersKept(hist[h].a, hist[h].b)]_vars

\* C15: for a piece just placed at (x, y), checkGameOver reports the
\* mover's win exactly when the mover's rows[x] = N, or cols[y] = N, or the
\* cell is on a diagonal whose counter = N; the same for O and for X.
ClaimC15 ==
  \A h \in Handles, x \in Idx, y \in Idx :
    games[h].board[x][y] = B =>
      LET g1 == place(games[h], x, y)
          piece == games[h].currentPiece
          counts == CountsOf(g1, piece)
          diag == getDiag(x, y)
      IN (checkGameOver(g1, x, y) = WinOf(piece))
           <=> \/ counts.rows[x] = boardSize
               \/ counts.cols[y] = boardSize
               \/ (diag >= 0 /\ counts.diags[diag] = boardSize)

CountOn(board, piece, cells) ==
  Cardinality({c \in cells : board[c[1]][c[2]] = piece})

\* C16: for each player rows[i] is the number of the player's pieces on the
\* cells with x = i, cols[j] the number on the cells with y = j, diags[0]
\* the number on x = y and diags[1] the number on x + y = N-1.
ClaimC16 ==
  \A h \in Handles, piece \in {O, X} :
    LET counts == CountsOf(games[h], piece) IN
    /\ \A i \in Idx :
         /\ counts.rows[i] = CountOn(games[h].board, piece, RowCells(i))
         /\ counts.cols[i] = CountOn(games[h].board, piece, ColCells(i))
    /\ \A d \in 0..1 :
         counts.diags[d] = CountOn(games[h].board, piece, DiagCells(d))

\* C17: a successful move that returns a win or Tie places the piece and
\* updates totalPieces and the mover's counters, and leaves the current
\* piece and both movers as they were; a successful move that returns
\* Pending flips the piece and rotates the movers.
C17_TerminalKeepsTurn ==
  [][\A h \in Handles :
       hist'[h].n = hist[h].n + 1 =>
         LET old == games[h]
             new == games'[h]
             piece == old.currentPiece
         IN /\ new.totalPieces = old.totalPieces + 1
            /\ CountOf(new.board, piece) = CountOf(old.board, piece) + 1
            /\ \E c \in Cells :
                 /\ old.board[c[1]][c[2]] = B
                 /\ new.board[c[1]][c[2]] = piece
                 /\ CountsOf(new, piece).rows[c[1]] = CountsOf(old, piece).rows[c[1]] + 1
                 /\ CountsOf(new, piece).cols[c[2]] = CountsOf(old, piece).cols[c[2]] + 1
            /\ IF hist'[h].lastResult # Pending
                 THEN /\ new.currentPiece = old.currentPiece
                      /\ new.currentPlayer = old.currentPlayer
                      /\ new.nextPlayer = old.nextPlayer
                 ELSE /\ new.currentPiece = (IF piece = O THEN X ELSE O)
                      /\ new.currentPlayer = old.nextPlayer
                      /\ new.nextPlayer = hist'[h].mover1]_vars

\* O has just won and it is still O's turn
W_C17 ==
  /\ ret.op = "makeMove" /\ ret.err = NoErr /\ ret.result = OWin
  /\ hist[1].terminals = 1
  /\ games[1].currentPiece = O
  /\ games[1].currentPlayer = hist[1].mover1

\* the win check of checkGameOver for the piece just placed at (x, y): the
\* counters it tests for the mover
Detected(game, piece, x, y) ==
  LET counts == CountsOf(game, piece)
      diag == getDiag(x, y)
  IN \/ diag >= 0 /\ counts.diags[diag] = boardSize
     \/ counts.rows[x] = boardSize
     \/ counts.cols[IF piece = O THEN y ELSE x] = boardSize

\* C18: a successful move that fills the last Blank cell and gives the mover
\* a detected line returns the mover's win, never Tie; Tie is returned only
\* when the mover's win check fails and totalPieces = N*N.
C18_WinBeforeTie ==
  /\ \A h \in Handles, x \in Idx, y \in Idx :
       games[h].board[x][y] = B =>
         LET piece == games[h].currentPiece
             m == makeMove(games[h], games[h].currentPlayer, x, y)
             won == Detected(m.game, piece, x, y)
         IN /\ won => m.result = WinOf(piece)
            /\ m.result = Tie
                 <=> (~won /\ m.game.totalPieces = boardSize * boardSize)
  /\ \A h \in Handles :
       hist[h].lastResult = Tie => NonBlank(games[h].board) = boardSize * boardSize

\* the ninth move filled the board and returned O's win
W_C18 ==
  /\ hist[1].n = boardSize * boardSize
  /\ NonBlank(games[1].board) = boardSize * boardSize
  /\ hist[1].terminals = 1
  /\ hist[1].lastResult = OWin
  /\ ret.result = OWin

\* C19: in a game of startGame(A, B) with A # B the current mover and the
\* next mover are A and B, one each, and the current piece is O exactly
\* when the current mover is A and X exactly when it is B.
ClaimC19 ==
  \A h \in Handles :
    hist[h].a # hist[h].b =>
      /\ {games[h].currentPlayer, games[h].nextPlayer} = {hist[h].a, hist[h].b}
      /\ games[h].currentPiece = O <=> games[h].currentPlayer = hist[h].a
      /\ games[h].currentPiece = X <=> games[h].currentPlayer = hist[h].b

====
